---- MODULE Spec2Model ----
(***************************************************************************)
(* Model of src/fast3sat_solver.py: FastThreeSATSolver, its TwoSATSets     *)
(* indices (sets_fwd, sets_bkw), the three-stage find_unsat detector and   *)
(* the SCC-based two_sat oracle.                                           *)
(*                                                                         *)
(* A literal is a nonzero integer, a clause a tuple of literals.           *)
(* A Python dict is a TLA+ function whose DOMAIN is the dict's key set.    *)
(***************************************************************************)
EXTENDS Integers, Sequences, FiniteSets, TLC

VARIABLES
    sets_fwd,    \* TwoSATSets.sets_fwd : literal -> set of normalized pairs
    sets_bkw,    \* TwoSATSets.sets_bkw : normalized pair -> set of witness literals
    unsat_pos,   \* TwoSATSets.unsat_pos
    unsat_neg,   \* TwoSATSets.unsat_neg
    unsat_tup,   \* TwoSATSets.unsat_tup
    ret,         \* value returned by the last solve call ("none" before)
    lastop,      \* the last operation executed on the solver object
    log,         \* history: the clauses appended to this object since construction, in order
    prior,       \* history: number of clauses in log when the last solve call began
    fresh,       \* history: the last solve call began on a freshly constructed object
    cnf,         \* argument under construction for a direct two_sat call
    oracle_pc,   \* "building" the argument, or "returned" from the direct two_sat call
    oracle_ret   \* value returned by the direct two_sat call ("none" before)

vars == <<sets_fwd, sets_bkw, unsat_pos, unsat_neg, unsat_tup, ret, lastop,
          log, prior, fresh, cnf, oracle_pc, oracle_ret>>

solver_vars == <<sets_fwd, sets_bkw, unsat_pos, unsat_neg, unsat_tup, ret, lastop,
                 log, prior, fresh>>

oracle_vars == <<cnf, oracle_pc, oracle_ret>>

----------------------------------------------------------------------------
(* Bounds of the model *)

\* variables 1..NumVars occur in the 3-literal clauses given to the solver
NumVars == 2

\* at most MaxClauses append calls are made on one solver object
MaxClauses == 3

\* variables 1..OracleVars occur in the clauses given directly to two_sat
OracleVars == 3

\* at most MaxOracleClauses clauses are given directly to two_sat
MaxOracleClauses == 4

\* at most MaxFreshClauses clauses are in a list solved on a fresh solver
MaxFreshClauses == 4

Lits(n) == {l \in (-n)..n : l # 0}

\* 3-literal clauses written in ascending literal order (as every clause of the
\* source's clause lists is), repeated literals and x / -x in one clause allowed
ClausePool == {c \in Lits(NumVars) \X Lits(NumVars) \X Lits(NumVars) :
                  c[1] <= c[2] /\ c[2] <= c[3]}

\* unit clauses and 2-literal clauses
OraclePool == {<<x>> : x \in Lits(OracleVars)} \cup
              {p \in Lits(OracleVars) \X Lits(OracleVars) : p[1] <= p[2]}

----------------------------------------------------------------------------
(* Pure helpers *)

Abs(x) == IF x < 0 THEN -x ELSE x

Range(s) == {s[i] : i \in DOMAIN s}

\* normalize_tuple
normalize_tuple(pair) ==
    IF Len(pair) = 1
    THEN <<-pair[1]>>
    ELSE IF pair[1] < pair[2] THEN <<pair[1], pair[2]>> ELSE <<pair[2], pair[1]>>

----------------------------------------------------------------------------
(* two_sat: implication graph, strongly connected components *)

\* edges added for one clause
ClauseEdgesFlipped(clause) ==
    IF Len(clause) = 1
    THEN {<<clause[1], -clause[1]>>, <<clause[1], clause[1]>>}
    ELSE IF Len(clause) = 2
         THEN {<<-clause[1], clause[2]>>, <<-clause[2], clause[1]>>}
         ELSE {}

ClauseEdges(clause) ==
    IF Len(clause) = 1
    THEN {<<-clause[1], clause[1]>>, <<clause[1], clause[1]>>}
    ELSE IF Len(clause) = 2
         THEN {<<-clause[1], clause[2]>>, <<-clause[2], clause[1]>>}
         ELSE {}

GraphEdges(clauses) == UNION {ClauseEdges(c) : c \in clauses}

GraphNodes(E) == {e[1] : e \in E} \cup {e[2] : e \in E}

RECURSIVE ReachFrom(_, _)
ReachFrom(E, S) ==
    LET T == S \cup {e[2] : e \in {d \in E : d[1] \in S}}
    IN  IF T = S THEN S ELSE ReachFrom(E, T)

\* two nodes are in the same strongly connected component
SameSCC(E, u, v) == v \in ReachFrom(E, {u}) /\ u \in ReachFrom(E, {v})

\* two_sat(clauses): TRUE = satisfiable
two_sat(clauses) ==
    LET E == GraphEdges(clauses)
        N == GraphNodes(E)
    IN  ~ \E var \in N : -var \in N /\ SameSCC(E, var, -var)

----------------------------------------------------------------------------
(* TwoSATSets.append *)

EmptyDict == [x \in {} |-> {}]

\* sets_fwd: "if k not in sets_fwd: sets_fwd[k] = set()" then "sets_fwd[k].add(pair)"
FwdAddReset(fwd, k, pair) ==
    [x \in DOMAIN fwd \cup {k} |-> IF x = k THEN {pair} ELSE fwd[x]]

FwdAdd(fwd, k, pair) ==
    [x \in DOMAIN fwd \cup {k} |->
        IF x = k
        THEN (IF k \in DOMAIN fwd THEN fwd[k] ELSE {}) \cup {pair}
        ELSE fwd[x]]

\* sets_bkw: "if k not in sets_bkw: sets_bkw[k] = set(); sets_bkw[k].add(w)"
\* (the add is inside the if: a key that is already present is left alone)
BkwAddOverwrite(bkw, k, w) ==
    [x \in DOMAIN bkw \cup {k} |-> IF x = k THEN {w} ELSE bkw[x]]

BkwAdd(bkw, k, w) ==
    IF k \in DOMAIN bkw
    THEN bkw
    ELSE [x \in DOMAIN bkw \cup {k} |-> IF x = k THEN {w} ELSE bkw[x]]

\* the forward index after append(tup)
AppendFwd(fwd, tup) ==
    LET f1 == FwdAdd(fwd, -tup[1], normalize_tuple(<<tup[2], tup[3]>>))
        f2 == FwdAdd(f1, -tup[2], normalize_tuple(<<tup[1], tup[3]>>))
    IN  FwdAdd(f2, -tup[3], normalize_tuple(<<tup[1], tup[2]>>))

\* the backward index after append(tup)
AppendBkw(bkw, tup) ==
    LET b1 == BkwAdd(bkw, normalize_tuple(<<-tup[2], -tup[3]>>), tup[1])
        b2 == BkwAdd(b1, normalize_tuple(<<-tup[1], -tup[2]>>), tup[3])
    IN  BkwAdd(b2, normalize_tuple(<<-tup[1], -tup[3]>>), tup[2])

\* "for clause in clauses: self.add_clause(clause)" of solve
RECURSIVE AppendAllFwd(_, _)
AppendAllFwd(fwd, clauses) ==
    IF clauses = <<>> THEN fwd
    ELSE AppendAllFwd(AppendFwd(fwd, Head(clauses)), Tail(clauses))

RECURSIVE AppendAllBkw(_, _)
AppendAllBkw(bkw, clauses) ==
    IF clauses = <<>> THEN bkw
    ELSE AppendAllBkw(AppendBkw(bkw, Head(clauses)), Tail(clauses))

----------------------------------------------------------------------------
(* TwoSATSets.find_unsat *)

\* stage A: keys of sets_fwd whose pair set the oracle rejects
StageAPos(fwd) == {k \in DOMAIN fwd : k > 0 /\ ~two_sat(fwd[k])}

StageANegSwapped(fwd) == {k \in DOMAIN fwd : ~(k > 0) /\ ~two_sat(fwd[k])}

StageANeg(fwd) == {-k : k \in {j \in DOMAIN fwd : ~(j > 0) /\ ~two_sat(fwd[j])}}

\* stage B: "two_sat_cond = [k] + list(self.sets_fwd[v])" for each witness v of
\* key k that is a key of sets_fwd; on rejection (-k[1], -k[0]) is added
StageBNoDual(fwd, bkw) ==
    {k \in DOMAIN bkw :
        \E v \in bkw[k] : v \in DOMAIN fwd /\ ~two_sat({k} \cup fwd[v])}

StageB(fwd, bkw) ==
    {<<-k[2], -k[1]>> : k \in {j \in DOMAIN bkw :
        \E v \in bkw[j] : v \in DOMAIN fwd /\ ~two_sat({j} \cup fwd[v])}}

\* stage C: the final clause list
FinalCond(pos, neg, tup) ==
    {<<-p>> : p \in pos} \cup {<<n>> : n \in neg} \cup tup

\* the accumulators after find_unsat on the given indices and accumulators
NewPos(fwd, pos) == pos \cup StageAPos(fwd)
NewNeg(fwd, neg) == neg \cup StageANeg(fwd)
NewTup(fwd, bkw, tup) == tup \cup StageB(fwd, bkw)

\* the value find_unsat returns: TRUE = unsatisfiable
find_unsat(fwd, bkw, pos, neg, tup) ==
    ~two_sat(FinalCond(NewPos(fwd, pos), NewNeg(fwd, neg), NewTup(fwd, bkw, tup)))

\* the value solve(clauses) returns on a freshly constructed solver
SolveFresh(clauses) ==
    ~find_unsat(AppendAllFwd(EmptyDict, clauses), AppendAllBkw(EmptyDict, clauses),
                {}, {}, {})

----------------------------------------------------------------------------
(* The solver object *)

\* FastThreeSATSolver(): __init__ builds an empty TwoSATSets
Constructed ==
    /\ sets_fwd = EmptyDict
    /\ sets_bkw = EmptyDict
    /\ unsat_pos = {}
    /\ unsat_neg = {}
    /\ unsat_tup = {}
    /\ ret = "none"
    /\ lastop = "init"
    /\ log = <<>>
    /\ prior = 0
    /\ fresh = TRUE

OracleIdle == cnf = {} /\ oracle_pc = "building" /\ oracle_ret = "none"

Init == Constructed /\ OracleIdle

\* a new FastThreeSATSolver() replaces the object
Construct ==
    /\ lastop # "init"
    /\ sets_fwd' = EmptyDict
    /\ sets_bkw' = EmptyDict
    /\ unsat_pos' = {}
    /\ unsat_neg' = {}
    /\ unsat_tup' = {}
    /\ ret' = "none"
    /\ lastop' = "init"
    /\ log' = <<>>
    /\ prior' = 0
    /\ fresh' = TRUE
    /\ UNCHANGED oracle_vars

\* add_clause(clause)
AddClause(clause) ==
    /\ Len(log) < MaxClauses
    /\ sets_fwd' = AppendFwd(sets_fwd, clause)
    /\ sets_bkw' = AppendBkw(sets_bkw, clause)
    /\ lastop' = "append"
    /\ log' = Append(log, clause)
    /\ UNCHANGED <<unsat_pos, unsat_neg, unsat_tup, ret, prior, fresh>>
    /\ UNCHANGED oracle_vars

\* solve(clauses): every add_clause, then find_unsat, then the negated verdict
Solve(clauses) ==
    LET fwd == AppendAllFwd(sets_fwd, clauses)
        bkw == AppendAllBkw(sets_bkw, clauses)
    IN  /\ sets_fwd' = fwd
        /\ sets_bkw' = bkw
        /\ unsat_pos' = NewPos(fwd, unsat_pos)
        /\ unsat_neg' = NewNeg(fwd, unsat_neg)
        /\ unsat_tup' = NewTup(fwd, bkw, unsat_tup)
        /\ ret' = ~find_unsat(fwd, bkw, unsat_pos, unsat_neg, unsat_tup)
        /\ lastop' = "solve"
        /\ log' = log \o clauses
        /\ prior' = Len(log)
        /\ fresh' = (lastop = "init")
        /\ UNCHANGED oracle_vars

\* clause lists of at most n clauses
ClauseLists(n) == UNION {[1..j -> ClausePool] : j \in 0..n}

SolveAny ==
    \E clauses \in ClauseLists(MaxClauses - Len(log)) : Solve(clauses)

AddAny == \E clause \in ClausePool : AddClause(clause)

Next == Construct \/ AddAny \/ SolveAny

Spec == Init /\ [][Next]_vars

\* the clause list handed to the last solve call
Given == SubSeq(log, prior + 1, Len(log))

----------------------------------------------------------------------------
(* sequences of solve calls on one solver object *)

NextCalls == Construct \/ SolveAny

SpecCalls == Init /\ [][NextCalls]_vars

----------------------------------------------------------------------------
(* solve on freshly constructed solvers only, longer clause lists *)

SolveFreshAny ==
    /\ lastop = "init"
    /\ \E clauses \in ClauseLists(MaxFreshClauses) : Solve(clauses)

NextFresh == Construct \/ SolveFreshAny

SpecFresh == Init /\ [][NextFresh]_vars

----------------------------------------------------------------------------
(* solve on freshly constructed solvers, clause lists taken from the example *)
(* CNF of the source                                                         *)

\* the example clause list
DocClauses ==
    << <<-4, -1, 3>>, <<-3, -2, -1>>, <<-4, 1, 3>>, <<-2, -1, 4>>, <<-4, -2, 1>>,
       <<1, 2, 4>>, <<-1, 2, 3>>, <<-4, -3, 2>>, <<-3, -1, 4>>, <<-2, 1, 4>> >>

\* the sub-list of seq made of the positions in S, in order
RECURSIVE Pick(_, _, _)
Pick(seq, S, i) ==
    IF i > Len(seq) THEN <<>>
    ELSE (IF i \in S THEN <<seq[i]>> ELSE <<>>) \o Pick(seq, S, i + 1)

SolveDocAny ==
    /\ lastop = "init"
    /\ \E S \in SUBSET DOMAIN DocClauses : Solve(Pick(DocClauses, S, 1))

NextDoc == Construct \/ SolveDocAny

SpecDoc == Init /\ [][NextDoc]_vars

----------------------------------------------------------------------------
(* direct calls of two_sat *)

OracleGive(clause) ==
    /\ Cardinality(cnf \cup {clause}) <= MaxOracleClauses
    /\ cnf' = cnf \cup {clause}
    /\ oracle_pc' = "building"
    /\ oracle_ret' = "none"
    /\ UNCHANGED solver_vars

OracleCall ==
    /\ oracle_pc = "building"
    /\ oracle_pc' = "returned"
    /\ oracle_ret' = two_sat(cnf)
    /\ UNCHANGED cnf
    /\ UNCHANGED solver_vars

OracleGiveAny == \E clause \in OraclePool : OracleGive(clause)

NextOracle == OracleGiveAny \/ OracleCall

SpecOracle == Init /\ [][NextOracle]_vars

----------------------------------------------------------------------------
(* Truth-table semantics, used to state the properties *)

VarsOf(clauses) == UNION {{Abs(c[i]) : i \in DOMAIN c} : c \in clauses}

\* literal l is true when A is the set of true variables
LitTrue(A, l) == IF l > 0 THEN l \in A ELSE (-l) \notin A

ClauseTrue(A, c) == \E i \in DOMAIN c : LitTrue(A, c[i])

\* some truth assignment satisfies every clause
Satisfiable(clauses) ==
    \E A \in SUBSET VarsOf(clauses) : \A c \in clauses : ClauseTrue(A, c)

\* every truth assignment that satisfies the clauses satisfies d
Entails(clauses, d) ==
    \A A \in SUBSET VarsOf(clauses \cup {d}) :
        (\A c \in clauses : ClauseTrue(A, c)) => ClauseTrue(A, d)

\* transitive closure of an edge set, by repeated composition
RECURSIVE Closure(_)
Closure(R) ==
    LET Step == R \cup {<<q[1][1], q[2][2]>> : q \in {r \in R \X R : r[1][2] = r[2][1]}}
    IN  IF Step = R THEN R ELSE Closure(Step)

\* the permutations of a list
ListPerms(seq) ==
    {[i \in 1..Len(seq) |-> seq[p[i]]] : p \in Permutations(1..Len(seq))}

\* the value find_unsat would return in the current state
FindUnsatNow == find_unsat(sets_fwd, sets_bkw, unsat_pos, unsat_neg, unsat_tup)

\* the De Morgan dual of a backward key
Dual(k) == <<-k[2], -k[1]>>

----------------------------------------------------------------------------
(* Properties *)

\* C1: order independence. Every permutation of the clause list solved on a fresh
\* solver gets, on a fresh solver, the verdict the list got.
C1_OrderIndependent ==
    (lastop = "solve" /\ fresh) =>
        \A p \in ListPerms(Given) : SolveFresh(p) = ret

\* C2: small-instance correctness. solve on a fresh solver returns TRUE exactly
\* when the clause list is satisfiable by truth-table enumeration.
C2_SmallInstanceCorrect ==
    (lastop = "solve" /\ fresh) => (ret = Satisfiable(Range(Given)))

\* C3: oracle exactness. two_sat returns TRUE exactly when some truth assignment
\* satisfies every clause, and FALSE exactly when a literal and its negation are
\* graph nodes that reach each other in the implication graph.
C3_OracleExact ==
    oracle_pc = "returned" =>
        /\ oracle_ret = Satisfiable(cnf)
        /\ LET R == Closure(GraphEdges(cnf))
               N == GraphNodes(GraphEdges(cnf))
           IN  (oracle_ret = FALSE) <=>
                   \E l \in N : -l \in N /\ <<l, -l>> \in R /\ <<-l, l>> \in R

C3_Witness ==
    /\ oracle_pc = "returned"
    /\ oracle_ret = FALSE
    /\ Cardinality(cnf) = MaxOracleClauses
    /\ \A c \in cnf : Len(c) = 2 /\ c[1] # c[2] /\ c[1] # -c[2]

\* C4: no state survives across solve calls. Every solve call returns what a
\* freshly constructed solver returns for the same clause list.
C4_NoStateSurvives ==
    lastop = "solve" => ret = SolveFresh(Given)

\* C5: backward index completeness. For every appended clause (a,b,c) the
\* backward index holds a under norm(-b,-c), c under norm(-a,-b), b under norm(-a,-c).
C5_BackwardComplete ==
    \A i \in DOMAIN log :
        LET a == log[i][1]
            b == log[i][2]
            c == log[i][3]
            Has(k, w) == k \in DOMAIN sets_bkw /\ w \in sets_bkw[k]
        IN  /\ Has(normalize_tuple(<<-b, -c>>), a)
            /\ Has(normalize_tuple(<<-a, -b>>), c)
            /\ Has(normalize_tuple(<<-a, -c>>), b)

\* C6: the documented scenario. solve on a fresh solver with the example clause
\* list returns FALSE.
C6_DocumentedUnsat ==
    (lastop = "solve" /\ fresh /\ Given = DocClauses) => ret = FALSE

\* C7: idempotent append. Appending a clause that was appended before leaves
\* sets_fwd and sets_bkw as they were and does not change what find_unsat returns.
C7_IdempotentAppend ==
    [][(lastop' = "append" /\ log'[Len(log')] \in Range(log)) =>
            /\ sets_fwd' = sets_fwd
            /\ sets_bkw' = sets_bkw
            /\ FindUnsatNow' = FindUnsatNow]_vars

C7_Witness ==
    /\ lastop = "append"
    /\ Len(log) >= 2
    /\ log[Len(log)] \in Range(SubSeq(log, 1, Len(log) - 1))
    /\ log[Len(log)] # log[1]

\* C8: monotonic index growth. Unless a new solver is constructed, every key of
\* sets_fwd and sets_bkw stays and its set only grows; a solve call that appends
\* nothing (find_unsat alone) leaves both indices as they were.
C8_MonotonicGrowth ==
    [][lastop' # "init" =>
            /\ DOMAIN sets_fwd \subseteq DOMAIN sets_fwd'
            /\ \A k \in DOMAIN sets_fwd : sets_fwd[k] \subseteq sets_fwd'[k]
            /\ DOMAIN sets_bkw \subseteq DOMAIN sets_bkw'
            /\ \A k \in DOMAIN sets_bkw : sets_bkw[k] \subseteq sets_bkw'[k]
            /\ (lastop' = "solve" /\ log' = log) =>
                   (sets_fwd' = sets_fwd /\ sets_bkw' = sets_bkw)]_vars

C8_Witness ==
    /\ lastop = "append"
    /\ Len(log) = MaxClauses
    /\ \E k \in DOMAIN sets_fwd : Cardinality(sets_fwd[k]) >= 2

\* the single combined clause list for backward key k: k itself, the unit clause
\* of every witness, the pairs of sets_fwd[v] of every witness v that is a forward key
CombinedList(k) ==
    {k} \cup {<<v>> : v \in sets_bkw[k]}
        \cup UNION {sets_fwd[v] : v \in sets_bkw[k] \cap DOMAIN sets_fwd}

\* C9, stage B derivation rule with one combined list: after find_unsat, the dual
\* of backward key k is in unsat_tup exactly when the oracle rejects the combined
\* list of k (k, a unit clause for every witness of k, the pairs of sets_fwd[v]
\* for every witness v that is a forward key); nothing else is in unsat_tup.
C9_StageBCombined ==
    lastop = "solve" =>
        /\ \A k \in DOMAIN sets_bkw :
               (Dual(k) \in unsat_tup) <=> ~two_sat(CombinedList(k))
        /\ unsat_tup \subseteq {Dual(k) : k \in DOMAIN sets_bkw}

\* C9, stage B derivation rule per witness: after find_unsat, the dual of backward
\* key k is in unsat_tup exactly when, for some witness v of k that is a forward
\* key, the oracle rejects the list made of k and the pairs of sets_fwd[v] (no unit
\* clause; a witness that is no forward key is skipped); nothing else is in unsat_tup.
C9_StageBPerWitness ==
    lastop = "solve" =>
        /\ \A k \in DOMAIN sets_bkw :
               (Dual(k) \in unsat_tup) <=>
                   \E v \in sets_bkw[k] :
                       v \in DOMAIN sets_fwd /\ ~two_sat({k} \cup sets_fwd[v])
        /\ unsat_tup \subseteq {Dual(k) : k \in DOMAIN sets_bkw}

C9_Witness ==
    /\ lastop = "solve"
    /\ unsat_tup # {}
    /\ \E k \in DOMAIN sets_bkw : Dual(k) \notin unsat_tup

\* C10: soundness of the UNSAT verdict. After solve on a fresh solver every unit
\* clause derived in stage A and every pair derived in stage B follows from the
\* clause list, and if solve returned FALSE no truth assignment satisfies the list.
C10_UnsatVerdictSound ==
    (lastop = "solve" /\ fresh) =>
        /\ \A d \in FinalCond(unsat_pos, unsat_neg, unsat_tup) :
               Entails(Range(Given), d)
        /\ (ret = FALSE => ~Satisfiable(Range(Given)))

C10_Witness ==
    /\ lastop = "solve"
    /\ fresh
    /\ ret = FALSE
    /\ unsat_tup # {}
    /\ unsat_neg # {}

====
